---- MODULE Spec2Model ----
(***************************************************************************)
(* Model of the crush pipeline commands `head` and `csv` and of            *)
(* Cell::materialize, Cell::file_expand, Cell::cast and                    *)
(* Cell::partial_clone.                                                    *)
(*                                                                         *)
(* Strings are sequences of one-character strings, so that splitting,      *)
(* trimming and integer parsing are computed rather than assumed.          *)
(***************************************************************************)
EXTENDS Integers, Sequences, FiniteSets, TLC

VARIABLES
    \* ---- head (src/src/commands/head.rs) ----
    hAll,        \* every row the upstream producer will ever send, in order
    hLines,      \* `lines` argument of run
    hPending,    \* rows the upstream producer has not sent yet
    hInput,      \* rows queued in the input stream
    hInClosed,   \* the input stream's producer side has been dropped
    hInAlive,    \* the input stream's consumer side (held by run) is alive
    hOutput,     \* rows successfully sent to the output stream, in order
    hOutOpen,    \* the output stream's consumer side is alive
    hCount,      \* local `count` of run
    hRecvd,      \* number of rows run has taken out of the input stream
    hPc,         \* "run" | "done"
    hResult,     \* "none" | "ok" | "err"
    \* ---- csv (src/src/commands/csv.rs) ----
    args,        \* the arguments handed to compile_and_run
    content,     \* the bytes of the one existing file
    cPc,         \* "start" | "run" | "done"
    cResult,     \* "none" | "ok" | "err:<message>"
    cfg,         \* the Config returned by parse
    outInit,     \* the outer output stream has been initialized
    outOpen,     \* the outer stream's consumer side is alive
    outQueue,    \* outer rows queued in the outer stream
    outSent,     \* outer rows successfully sent, in order
    next,        \* index into cfg.files of the next file run hands to handle
    w,           \* per handled file: worker, nested stream and its consumer
    \* ---- Cell::cast, Cell::partial_clone (src/src/data/cell.rs) ----
    kOp,         \* the method called: "cast" | "partial_clone"
    kCell,       \* the cell the method is called on
    kType,       \* `new_type` argument of cast
    kPc,         \* "start" | "done"
    kResult      \* None before the call, Some(result) after it

hvars == <<hAll, hLines, hPending, hInput, hInClosed, hInAlive, hOutput,
           hOutOpen, hCount, hRecvd, hPc, hResult>>
cvars == <<args, content, cPc, cResult, cfg, outInit, outOpen, outQueue,
           outSent, next, w>>
kvars == <<kOp, kCell, kType, kPc, kResult>>
vars == <<hvars, cvars, kvars>>

-----------------------------------------------------------------------------
\* Bounds of the model.
MaxRows == 4
MaxCount == 3
MaxFiles == 2
MaxLines == 3
MaxText == 2
MaxInt == 12

Min(a, b) == IF a < b THEN a ELSE b

SeqsUpTo(S, n) == UNION {[1..k -> S] : k \in 0..n}

-----------------------------------------------------------------------------
\* The channel layer (crate::stream), spec section 4.3.

\* send(row): enqueue, never blocks; fails when the consumer side was dropped.
StreamSendOk(consumerAlive) == consumerAlive

StreamSend(queue, row) == Append(queue, row)

\* recv(): blocks until a row is available or the producer side is closed.
StreamRecvReady(queue, producerClosed) == queue /= <<>> \/ producerClosed

\* recv() yields Ok(row) while rows are queued, Err (end-of-stream) otherwise.
StreamRecvIsRow(queue) == queue /= <<>>

-----------------------------------------------------------------------------
\* head

RowVals == {"r1", "r2"}

\* head.rs:30 `if count >= lines { break; }`
HeadLimitOffByOne(count, lines) == count > lines
HeadLimitReached(count, lines) == count >= lines

HeadInit ==
    /\ hAll \in SeqsUpTo(RowVals, MaxRows)
    /\ hLines \in (0 - 1)..MaxCount
    /\ hPending = hAll
    /\ hInput = <<>>
    /\ hInClosed = FALSE
    /\ hInAlive = TRUE
    /\ hOutput = <<>>
    /\ hOutOpen = TRUE
    /\ hCount = 0
    /\ hRecvd = 0
    /\ hPc = "run"
    /\ hResult = "none"

\* The upstream stage sends its next row; a failed send makes it stop.
UpstreamSend ==
    /\ ~hInClosed
    /\ hPending /= <<>>
    /\ IF StreamSendOk(hInAlive)
         THEN /\ hInput' = StreamSend(hInput, Head(hPending))
              /\ hPending' = Tail(hPending)
              /\ UNCHANGED hInClosed
         ELSE /\ hInClosed' = TRUE
              /\ UNCHANGED <<hInput, hPending>>
    /\ UNCHANGED <<hAll, hLines, hInAlive, hOutput, hOutOpen, hCount, hRecvd,
                   hPc, hResult, cvars, kvars>>

\* The upstream stage has sent everything and drops its producer side.
UpstreamClose ==
    /\ ~hInClosed
    /\ hPending = <<>>
    /\ hInClosed' = TRUE
    /\ UNCHANGED <<hAll, hLines, hPending, hInput, hInAlive, hOutput, hOutOpen,
                   hCount, hRecvd, hPc, hResult, cvars, kvars>>

\* The downstream stage drops the consumer side of head's output.
DownstreamDrop ==
    /\ hOutOpen
    /\ hOutOpen' = FALSE
    /\ UNCHANGED <<hAll, hLines, hPending, hInput, hInClosed, hInAlive, hOutput,
                   hCount, hRecvd, hPc, hResult, cvars, kvars>>

\* One iteration of run's loop: recv, then forward, break or fail.
HeadStep ==
    /\ hPc = "run"
    /\ StreamRecvReady(hInput, hInClosed)
    /\ IF StreamRecvIsRow(hInput)
         THEN /\ hInput' = Tail(hInput)
              /\ hRecvd' = hRecvd + 1
              /\ IF HeadLimitReached(hCount, hLines)
                   THEN /\ hPc' = "done"
                        /\ hResult' = "ok"
                        /\ hInAlive' = FALSE
                        /\ UNCHANGED <<hOutput, hCount>>
                   ELSE IF StreamSendOk(hOutOpen)
                     THEN /\ hOutput' = StreamSend(hOutput, Head(hInput))
                          /\ hCount' = hCount + 1
                          /\ UNCHANGED <<hPc, hResult, hInAlive>>
                     ELSE /\ hPc' = "done"
                          /\ hResult' = "err"
                          /\ hInAlive' = FALSE
                          /\ UNCHANGED <<hOutput, hCount>>
         ELSE /\ hPc' = "done"
              /\ hResult' = "ok"
              /\ hInAlive' = FALSE
              /\ UNCHANGED <<hInput, hRecvd, hOutput, hCount>>
    /\ UNCHANGED <<hAll, hLines, hPending, hInClosed, hOutOpen, cvars, kvars>>

HeadNext == UpstreamSend \/ UpstreamClose \/ DownstreamDrop \/ HeadStep

-----------------------------------------------------------------------------
\* csv: values

NL == "\n"
Digits == {"0", "1", "2", "3", "4", "5", "6", "7", "8", "9"}

DigitVal(c) ==
    CASE c = "0" -> 0 [] c = "1" -> 1 [] c = "2" -> 2 [] c = "3" -> 3
      [] c = "4" -> 4 [] c = "5" -> 5 [] c = "6" -> 6 [] c = "7" -> 7
      [] c = "8" -> 8 [] c = "9" -> 9

\* Cell variants (cell.rs:24-43) that occur as arguments and as csv fields.
Text(s) == [kind |-> "Text", val |-> s]
File(p) == [kind |-> "File", val |-> p]
Glob(g) == [kind |-> "Glob", val |-> g]
Integer(n) == [kind |-> "Integer", val |-> n]
Output(id) == [kind |-> "Output", val |-> id]

\* Option<T> as a sequence of length 0 (None) or 1 (Some).
None == <<>>
Some(x) == <<x>>

Arg(name, cell) == [name |-> name, cell |-> cell]

Ok(v) == [ok |-> TRUE, val |-> v]
Err(msg) == [ok |-> FALSE, err |-> msg]

\* str::split(c): the fields between the separators; "" splits to [""].
Split(s, c) ==
    LET at == {k \in 1..Len(s) : s[k] = c}
        n == Cardinality(at) + 1
        sep(j) == CHOOSE k \in at : Cardinality({m \in at : m < k}) = j - 1
    IN  [j \in 1..n |->
            SubSeq(s, IF j = 1 THEN 1 ELSE sep(j - 1) + 1,
                      IF j = n THEN Len(s) ELSE sep(j) - 1)]

\* str::trim_matches(c): drop every leading and trailing c.
TrimMatches(s, c) ==
    LET keep == {k \in 1..Len(s) : s[k] /= c}
    IN  IF keep = {} THEN <<>>
        ELSE SubSeq(s, CHOOSE k \in keep : \A m \in keep : k <= m,
                       CHOOSE k \in keep : \A m \in keep : k >= m)

\* str::parse::<i128>(): an optional sign followed by at least one digit.
RECURSIVE DigitsValue(_, _)
DigitsValue(s, n) ==
    IF n = 0 THEN 0 ELSE 10 * DigitsValue(s, n - 1) + DigitVal(s[n])

ParseI128(s) ==
    LET signed == s /= <<>> /\ Head(s) \in {"+", "-"}
        body == IF signed THEN Tail(s) ELSE s
    IN  IF body = <<>> \/ \E k \in 1..Len(body) : body[k] \notin Digits
          THEN Err("invalid digit found in string")
          ELSE Ok(Integer(IF signed /\ Head(s) = "-"
                            THEN 0 - DigitsValue(body, Len(body))
                            ELSE DigitsValue(body, Len(body))))

\* CellType::from(name) (crate::data), used by parse for "name:type".
CellTypeFrom(name) ==
    IF name = <<"i", "n", "t", "e", "g", "e", "r">> THEN Ok("Integer")
    ELSE IF name = <<"t", "e", "x", "t">> THEN Ok("Text")
    ELSE Err("Unknown cell type")

\* CellType::parse(s) (crate::data): the field as a cell of the column's type.
CellTypeParse(t, s) == IF t = "Integer" THEN ParseI128(s) ELSE Ok(Text(s))

\* ColumnType::named(name, cell_type)
ColumnType(name, t) == [name |-> name, cell_type |-> t]

-----------------------------------------------------------------------------
\* csv: the file system.  One file exists; every other path cannot be opened.

PathA == <<"a">>
PathMissing == <<"m">>

FileExists(path) == path = PathA

\* Glob::glob_files(cwd, v) (crate::glob): appends the matching existing files.
GlobFiles(pattern, v) == IF pattern = <<"*">> THEN Append(v, PathA) ELSE v

\* Cell::file_expand (cell.rs:112-121): the result and the list afterwards.
FileExpand(cell, v) ==
    CASE cell.kind = "Text" -> [res |-> Ok(<<>>), files |-> Append(v, cell.val)]
      [] cell.kind = "File" -> [res |-> Ok(<<>>), files |-> Append(v, cell.val)]
      [] cell.kind = "Glob" -> [res |-> Ok(<<>>), files |-> GlobFiles(cell.val, v)]
      [] OTHER -> [res |-> Err("Expected a file name"), files |-> v]

-----------------------------------------------------------------------------
\* csv: parse (csv.rs:37-100)

DefaultConfig ==
    [separator |-> ",", columns |-> <<>>, skip_head |-> 0, trim |-> None,
     files |-> <<>>]

\* csv.rs:51-61, the "col" argument
ParseCol(c, cell) ==
    IF cell.kind /= "Text" THEN Err("Expected a text value")
    ELSE LET split == Split(cell.val, ":")
         IN  IF Len(split) /= 2
               THEN Err("Expected a column description on the form name:type")
               ELSE LET t == CellTypeFrom(split[2])
                    IN  IF ~t.ok THEN t
                        ELSE Ok([c EXCEPT !.columns =
                                   Append(@, ColumnType(split[1], t.val))])

\* csv.rs:63-73, the "sep" argument
ParseSep(c, cell) ==
    IF cell.kind /= "Text" THEN Err("Expected a text value")
    ELSE IF Len(cell.val) = 1 THEN Ok([c EXCEPT !.separator = cell.val[1]])
    ELSE Err("Separator must be exactly one character long")

\* csv.rs:75-85, the "trim" argument
ParseTrim(c, cell) ==
    IF cell.kind /= "Text" THEN Err("Expected a text value")
    ELSE IF Len(cell.val) = 1 THEN Ok([c EXCEPT !.trim = Some(cell.val[1])])
    ELSE Err("Separator must be exactly one character long")

\* csv.rs:46-48: a positional argument; the Result of file_expand is dropped.
ParsePositional(c, cell) == Ok([c EXCEPT !.files = FileExpand(cell, @).files])

\* csv.rs:45-90: one argument of the loop
ParseArg(c, arg) ==
    IF arg.name = None THEN ParsePositional(c, arg.cell)
    ELSE CASE arg.name = Some("col") -> ParseCol(c, arg.cell)
           [] arg.name = Some("sep") -> ParseSep(c, arg.cell)
           [] arg.name = Some("trim") -> ParseTrim(c, arg.cell)
           [] OTHER -> Err("Unknown parameter")

RECURSIVE ParseFrom(_, _)
ParseFrom(arguments, c) ==
    IF arguments = <<>> THEN Ok(c)
    ELSE LET r == ParseArg(c, Head(arguments))
         IN  IF r.ok THEN ParseFrom(Tail(arguments), r.val) ELSE r

Parse(arguments) == ParseFrom(arguments, DefaultConfig)

-----------------------------------------------------------------------------
\* csv: the worker's handling of one line (csv.rs:126-153)

\* BufRead::read_line: up to and including the next newline, or to the end.
ReadLine(rest) ==
    LET at == {k \in 1..Len(rest) : rest[k] = NL}
    IN  IF at = {} THEN rest
        ELSE SubSeq(rest, 1, CHOOSE k \in at : \A m \in at : k <= m)

\* csv.rs:128 `if line.is_empty() { break; }`
LineIsEmpty(line) == line = <<>>

\* csv.rs:131 `&line[0..line.len() - 1]`
LineWithoutNewline(line) == SubSeq(line, 1, Len(line) - 1)

TrimField(s, trim) == IF trim = None THEN s ELSE TrimMatches(s, trim[1])

\* csv.rs:134-136 and 141-143: every field trimmed (twice, as the code does).
TrimFields(split, trim) ==
    [k \in 1..Len(split) |-> TrimField(TrimField(split[k], trim), trim)]

\* csv.rs:132-137 and 141-143: split on the separator, trim every field.
SplitFields(line, separator, trim) == TrimFields(Split(line, separator), trim)

\* csv.rs:138 `if split.len() != columns.len()`
WrongColumnCount(split, columns) == Len(split) /= Len(columns)

\* csv.rs:145-148: zip fields with columns, parse each, stop at the first
\* error.
ParseCells(split, columns) ==
    LET n == Min(Len(split), Len(columns))
        r == [k \in 1..n |-> CellTypeParse(columns[k].cell_type, split[k])]
        bad == {k \in 1..n : ~r[k].ok}
    IN  IF bad = {} THEN Ok([k \in 1..n |-> r[k].val])
        ELSE r[CHOOSE k \in bad : \A j \in bad : k <= j]

\* csv.rs:138-151: the diagnostics reported for a line and the row sent for
\* it, if any, given its fields and the result of parsing them.
LineOutcome(split, cells, columns) ==
    LET count == IF WrongColumnCount(split, columns)
                   THEN <<"csv: Wrong number of columns in CSV file">>
                   ELSE <<>>
    IN  IF cells.ok THEN [errs |-> count, row |-> Some(cells.val)]
        ELSE [errs |-> Append(count, cells.err), row |-> None]

\* csv.rs:123 `File::open(file).unwrap()`: the worker goes on, or panics.
OpenRetries(path) == IF FileExists(path) THEN "loop" ELSE "open"
OpenOutcome(path) == IF FileExists(path) THEN "loop" ELSE "panic"

\* csv.rs:114 `output.send(out_row)?`: handle returns early on a failed send.
HandleIgnoresSendError(sendOk) == FALSE
HandleReturnsError(sendOk) == ~sendOk

\* csv.rs:106-113: the outer row of a file.
OutRow(file, id) == <<File(file), Output(id)>>

\* cell.rs:152 `rows.push(r.materialize())`; a row of leaf cells materializes
\* to itself.
MaterializePrepend(rows, r) == <<r>> \o rows
MaterializePush(rows, r) == Append(rows, r)

\* ColumnType::materialize (crate::data): leaf column types are unchanged.
MaterializeTypes(types) == types

\* cell.rs:156 the Rows cell materialize returns.
Rows(types, rows) == [kind |-> "Rows", types |-> MaterializeTypes(types), rows |-> rows]

-----------------------------------------------------------------------------
\* csv: the inputs explored

Str_a_integer == <<"a", ":", "i", "n", "t", "e", "g", "e", "r">>
Str_b_integer == <<"b", ":", "i", "n", "t", "e", "g", "e", "r">>

ColArgs == <<Arg(Some("col"), Text(Str_a_integer)),
             Arg(Some("col"), Text(Str_b_integer))>>

TrimArgs == <<Arg(Some("trim"), Text(<<" ">>))>>

\* Lines of a file: well-formed, a field that is no integer, too few fields,
\* padded fields, too many fields.
LineSamples ==
    { <<"1", ",", "2">>,
      <<"x", ",", "2">>,
      <<"1">>,
      <<" ", "2", ",", "1">>,
      <<"1", ",", "2", ",", "1">> }

RECURSIVE JoinLines(_)
JoinLines(lines) ==
    IF lines = <<>> THEN <<>>
    ELSE Head(lines) \o <<NL>> \o JoinLines(Tail(lines))

\* Every file of at most MaxLines sample lines, its last line with or without
\* a terminating newline.
Contents ==
    LET full == {JoinLines(ls) : ls \in SeqsUpTo(LineSamples, MaxLines)}
    IN  full \cup {SubSeq(f, 1, Len(f) - 1) : f \in full \ {<<>>}}

FileCells == {Text(PathA), File(PathMissing)}

\* Arguments of every kind parse distinguishes, well-formed and not.
ArgPool ==
    { Arg(None, Text(PathA)), Arg(None, File(PathA)), Arg(None, Glob(<<"*">>)),
      Arg(None, Integer(1)),
      Arg(Some("sep"), Text(<<";">>)), Arg(Some("sep"), Text(<<";", ";">>)),
      Arg(Some("trim"), Integer(1)),
      Arg(Some("col"), Text(<<"a", ":", "x">>)), Arg(Some("col"), Text(<<"a">>)),
      Arg(Some("skip"), Text(<<"1">>)) }

\* A few files for the runs over several files: empty, a well-formed line
\* followed by a cast failure, and malformed lines the last of which has no
\* newline.
FilesContents ==
    { <<>>,
      <<"1", ",", "2", NL, "x", ",", "2", NL>>,
      <<"1", NL, "1", ",", "2", ",", "1">> }

\* The files of the liveness runs: empty, and a well-formed line followed by a
\* malformed line whose cast fails.
LiveContents ==
    { <<>>,
      <<"1", ",", "2", NL, "x", NL>> }

PositionalArgs(cells) == [k \in 1..Len(cells) |-> Arg(None, cells[k])]

\* What compile_and_run starts from, the inputs apart.
CsvStart ==
    /\ cPc = "start"
    /\ cResult = "none"
    /\ cfg = DefaultConfig
    /\ outInit = FALSE
    /\ outOpen = TRUE
    /\ outQueue = <<>>
    /\ outSent = <<>>
    /\ next = 1
    /\ w = <<>>

\* One file, existing or not, of any content, with declared columns.
CsvInit ==
    /\ content \in Contents
    /\ \E t \in {<<>>, TrimArgs}, f \in FileCells :
           args = ColArgs \o t \o PositionalArgs(<<f>>)
    /\ CsvStart

\* Several files: either well-formed arguments naming up to MaxFiles files, or
\* arbitrary arguments over one fixed file.
FilesInit ==
    /\ \/ /\ content \in FilesContents
          /\ \E t \in {<<>>, TrimArgs}, f \in SeqsUpTo(FileCells, MaxFiles) :
                 args = ColArgs \o t \o PositionalArgs(f)
       \/ /\ content = <<"1", ",", "2", NL>>
          /\ \E c \in {<<>>, ColArgs}, a \in SeqsUpTo(ArgPool, MaxFiles) :
                 args = c \o a
    /\ CsvStart

\* Several files, declared columns, no trimming.
LiveInit ==
    /\ content \in LiveContents
    /\ \E f \in SeqsUpTo(FileCells, MaxFiles) :
           args = ColArgs \o PositionalArgs(f)
    /\ CsvStart

-----------------------------------------------------------------------------
\* csv: actions

\* The consumer side of nested stream i is alive: still queued in the outer
\* stream, held by the downstream stage, or being drained by materialize.
ConsumerAlive(x) == x.cons \in {"queued", "held", "mat"}

\* compile_and_run (csv.rs:173-182) up to the call of run.
CompileAndRun ==
    /\ cPc = "start"
    /\ LET r == Parse(args)
       IN  IF ~r.ok
             THEN /\ cPc' = "done"
                  /\ cResult' = r.err
                  /\ UNCHANGED <<cfg, outInit>>
             ELSE /\ cfg' = r.val
                  /\ outInit' = TRUE
                  /\ IF r.val.files = <<>>
                       THEN cPc' = "done" /\ cResult' = "ok"
                       ELSE cPc' = "run" /\ UNCHANGED cResult
    /\ UNCHANGED <<args, content, outOpen, outQueue, outSent, next, w, hvars, kvars>>

\* One iteration of run's loop (csv.rs:160-171): handle (csv.rs:102-157) for
\* the next file, up to spawning its worker.
RunHandle ==
    /\ cPc = "run"
    /\ LET file == cfg.files[next]
           sendOk == StreamSendOk(outOpen)
           base == [file |-> file, types |-> cfg.columns, queue |-> <<>>,
                    rest |-> <<>>, log |-> <<>>, mrows |-> <<>>, result |-> None]
       IN  IF HandleReturnsError(sendOk)
             THEN /\ w' = Append(w, base @@ [pc |-> "none", prodOpen |-> FALSE,
                                              cons |-> "dropped"])
                  /\ cPc' = "done"
                  /\ cResult' = "send failed"
                  /\ UNCHANGED <<outQueue, outSent>>
             ELSE /\ w' = Append(w, base @@ [pc |-> "open", prodOpen |-> TRUE,
                                              cons |-> IF sendOk THEN "queued"
                                                       ELSE "dropped"])
                  /\ IF sendOk
                       THEN /\ outQueue' = StreamSend(outQueue, OutRow(file, next))
                            /\ outSent' = Append(outSent, OutRow(file, next))
                       ELSE UNCHANGED <<outQueue, outSent>>
                  /\ IF next = Len(cfg.files)
                       THEN cPc' = "done" /\ cResult' = "ok"
                       ELSE UNCHANGED <<cPc, cResult>>
    /\ next' = next + 1
    /\ UNCHANGED <<args, content, cfg, outInit, outOpen, hvars, kvars>>

\* csv.rs:123-124: the worker opens its file.
WorkerOpen(i) ==
    /\ w[i].pc = "open"
    /\ LET to == OpenOutcome(w[i].file)
       IN  w' = [w EXCEPT ![i].pc = to,
                          ![i].rest = IF to = "loop" THEN content ELSE @,
                          ![i].prodOpen = to /= "panic"]
    /\ UNCHANGED <<args, content, cPc, cResult, cfg, outInit, outOpen,
                   outQueue, outSent, next, hvars, kvars>>

\* csv.rs:126-154: one iteration of the worker's loop.
WorkerLine(i) ==
    /\ w[i].pc = "loop"
    /\ \E line \in {ReadLine(w[i].rest)} :
         IF LineIsEmpty(line)
           THEN w' = [w EXCEPT ![i].pc = "done", ![i].prodOpen = FALSE]
           ELSE \E fields \in {Split(LineWithoutNewline(line), cfg.separator)} :
                \E split \in {TrimFields(fields, cfg.trim)} :
                \E cells \in {ParseCells(split, cfg.columns)} :
                \E p \in {LineOutcome(split, cells, cfg.columns)} :
                \E sendOk \in {p.row /= None /\ StreamSendOk(ConsumerAlive(w[i]))} :
                  w' = [w EXCEPT
                          ![i].rest = SubSeq(@, Len(line) + 1, Len(@)),
                          ![i].log = Append(@, [raw |-> line, fields |-> fields,
                                                errs |-> p.errs, row |-> p.row,
                                                sendOk |-> sendOk]),
                          ![i].queue = IF sendOk THEN StreamSend(@, p.row[1])
                                       ELSE @]
    /\ UNCHANGED <<args, content, cPc, cResult, cfg, outInit, outOpen,
                   outQueue, outSent, next, hvars, kvars>>

\* The downstream stage receives the next outer row and now holds its Output
\* cell.
OuterRecv ==
    /\ outOpen
    /\ StreamRecvIsRow(outQueue)
    /\ outQueue' = Tail(outQueue)
    /\ w' = [w EXCEPT ![Head(outQueue)[2].val].cons = "held"]
    /\ UNCHANGED <<args, content, cPc, cResult, cfg, outInit, outOpen,
                   outSent, next, hvars, kvars>>

\* The downstream stage drops the outer stream's consumer side, and with it
\* the rows still queued there.
OuterDrop ==
    /\ outOpen
    /\ outOpen' = FALSE
    /\ outQueue' = <<>>
    /\ w' = [i \in 1..Len(w) |->
               IF w[i].cons = "queued" THEN [w[i] EXCEPT !.cons = "dropped",
                                                         !.queue = <<>>]
               ELSE w[i]]
    /\ UNCHANGED <<args, content, cPc, cResult, cfg, outInit, outSent, next,
                   hvars, kvars>>

\* The downstream stage drops an Output cell it holds.
ConsumerDrop(i) ==
    /\ w[i].cons = "held"
    /\ w' = [w EXCEPT ![i].cons = "dropped", ![i].queue = <<>>]
    /\ UNCHANGED <<args, content, cPc, cResult, cfg, outInit, outOpen,
                   outQueue, outSent, next, hvars, kvars>>

\* Cell::materialize on the Output cell (cell.rs:146-157): one recv of its
\* loop, and on end-of-stream the Rows cell.
MaterializeStep(i) ==
    /\ w[i].cons \in {"held", "mat"}
    /\ StreamRecvReady(w[i].queue, ~w[i].prodOpen)
    /\ IF StreamRecvIsRow(w[i].queue)
         THEN w' = [w EXCEPT ![i].cons = "mat",
                             ![i].queue = Tail(@),
                             ![i].mrows = MaterializePush(@, Head(w[i].queue))]
         ELSE w' = [w EXCEPT ![i].cons = "done",
                             ![i].result = Some(Rows(w[i].types, w[i].mrows))]
    /\ UNCHANGED <<args, content, cPc, cResult, cfg, outInit, outOpen,
                   outQueue, outSent, next, hvars, kvars>>

CsvNext ==
    \/ CompileAndRun
    \/ RunHandle
    \/ OuterRecv
    \/ OuterDrop
    \/ \E i \in 1..Len(w) : WorkerOpen(i)
    \/ \E i \in 1..Len(w) : WorkerLine(i)
    \/ \E i \in 1..Len(w) : ConsumerDrop(i)
    \/ \E i \in 1..Len(w) : MaterializeStep(i)

-----------------------------------------------------------------------------
\* Cell::cast and Cell::partial_clone (src/src/data/cell.rs): values

\* The remaining Cell variants (cell.rs:24-43).
Time(t) == [kind |-> "Time", val |-> t]
Duration(d) == [kind |-> "Duration", val |-> d]
Field(v) == [kind |-> "Field", val |-> v]
Regex(s) == [kind |-> "Regex", val |-> s]
Op(s) == [kind |-> "Op", val |-> s]
Command(c) == [kind |-> "Command", val |-> c]
Closure(c) == [kind |-> "Closure", val |-> c]
Env(e) == [kind |-> "Env", val |-> e]
Bool(b) == [kind |-> "Bool", val |-> b]
Row(types, cells) == [kind |-> "Row", types |-> types, val |-> cells]
List(types, cells) == [kind |-> "List", types |-> types, val |-> cells]
Dict(types, entries) == [kind |-> "Dict", types |-> types, val |-> entries]

\* The consumer handle an Output cell owns: the stream and its column types.
Stream(id, types) == [id |-> id, types |-> types]

\* InputStream::get_type (crate::stream)
StreamGetType(stream) == stream.types

\* CellType (crate::data): a variant and, for Output, Rows, Row, List and
\* Dict, the types it is parameterised with.
CellType(kind, sub) == [kind |-> kind, sub |-> sub]

\* Cell::cell_type (cell.rs:89-110)
CellTypeOf(cell) ==
    CASE cell.kind = "Output" -> CellType("Output", StreamGetType(cell.val))
      [] cell.kind \in {"Rows", "Row", "List", "Dict"} ->
             CellType(cell.kind, cell.types)
      [] OTHER -> CellType(cell.kind, <<>>)

\* A byte sequence that is not valid unicode, as one character of a path.
NonUnicode == "?"

\* Path::to_str: None when the path is not valid unicode.
PathToStr(p) ==
    IF \E k \in 1..Len(p) : p[k] = NonUnicode THEN None ELSE Some(p)

\* Regex::new accepts the pattern or reports a syntax error: an unclosed
\* group and a leading repetition operator are syntax errors.
RegexSyntaxOk(s) ==
    /\ ~(\E k \in 1..Len(s) : s[k] = "(")
    /\ ~(s /= <<>> /\ s[1] = "*")

RegexNew(s) ==
    IF RegexSyntaxOk(s) THEN Ok(Regex(s)) ELSE Err("regex parse error")

\* Glob::new and Glob::to_string (crate::glob): a glob keeps its pattern text.
GlobNew(s) == Glob(s)
GlobToString(g) == g

DigitChar(d) == CHOOSE c \in Digits : DigitVal(c) = d

\* i128::to_string
RECURSIVE NatToString(_)
NatToString(n) ==
    IF n < 10 THEN <<DigitChar(n)>>
    ELSE Append(NatToString(n \div 10), DigitChar(n % 10))

IntToString(i) == IF i < 0 THEN <<"-">> \o NatToString(0 - i) ELSE NatToString(i)

-----------------------------------------------------------------------------
\* Cell::cast (cell.rs:166-238)

\* to_job_error(s.parse::<i128>()).map(|v| Cell::Integer(v))
CastParseInteger(s) == ParseI128(s)

\* cell.rs:236, the arm of every pair that has no arm of its own.
CastDefaultKeepsCell(cell, new_type) == Ok(cell)
CastDefault(cell, new_type) == Err("Unimplemented conversion")

\* cell.rs:177-182
CastFromText(cell, new_type) ==
    LET s == cell.val
    IN  CASE new_type.kind = "File" -> Ok(File(s))
          [] new_type.kind = "Glob" -> Ok(GlobNew(s))
          [] new_type.kind = "Integer" -> CastParseInteger(s)
          [] new_type.kind = "Field" -> Ok(Field(<<s>>))
          [] new_type.kind = "Op" -> Ok(Op(s))
          [] new_type.kind = "Regex" -> RegexNew(s)
          [] OTHER -> CastDefault(cell, new_type)

\* cell.rs:184-203
CastFromFile(cell, new_type) ==
    LET str == PathToStr(cell.val)
        NotUnicode == Err("File name is not valid unicode")
    IN  CASE new_type.kind = "Text" ->
                 IF str = None THEN NotUnicode ELSE Ok(Text(str[1]))
          [] new_type.kind = "Glob" ->
                 IF str = None THEN NotUnicode ELSE Ok(GlobNew(str[1]))
          [] new_type.kind = "Integer" ->
                 IF str = None THEN NotUnicode ELSE CastParseInteger(str[1])
          [] new_type.kind = "Op" ->
                 IF str = None THEN NotUnicode ELSE Ok(Op(str[1]))
          [] new_type.kind = "Regex" ->
                 IF str = None THEN NotUnicode ELSE RegexNew(str[1])
          [] OTHER -> CastDefault(cell, new_type)

\* cell.rs:205-212
CastFromGlob(cell, new_type) ==
    LET s == GlobToString(cell.val)
    IN  CASE new_type.kind = "Text" -> Ok(Text(s))
          [] new_type.kind = "File" -> Ok(File(s))
          [] new_type.kind = "Integer" -> CastParseInteger(s)
          [] new_type.kind = "Op" -> Ok(Op(s))
          [] new_type.kind = "Regex" -> RegexNew(s)
          [] OTHER -> CastDefault(cell, new_type)

\* cell.rs:221-225
CastFromRegex(cell, new_type) ==
    LET s == cell.val
    IN  CASE new_type.kind = "File" -> Ok(File(s))
          [] new_type.kind = "Glob" -> Ok(GlobNew(s))
          [] new_type.kind = "Integer" -> CastParseInteger(s)
          [] new_type.kind = "Text" -> Ok(Text(s))
          [] new_type.kind = "Op" -> Ok(Op(s))
          [] OTHER -> CastDefault(cell, new_type)

\* cell.rs:227-235
CastFromInteger(cell, new_type) ==
    LET s == IntToString(cell.val)
    IN  CASE new_type.kind = "Text" -> Ok(Text(s))
          [] new_type.kind = "File" -> Ok(File(s))
          [] new_type.kind = "Glob" -> Ok(GlobNew(s))
          [] new_type.kind = "Field" -> Ok(Field(<<s>>))
          [] new_type.kind = "Op" -> Ok(Op(s))
          [] new_type.kind = "Regex" -> RegexNew(s)
          [] OTHER -> CastDefault(cell, new_type)

\* cell.rs:176-237, the match on (self, new_type).
CastMatch(cell, new_type) ==
    CASE cell.kind = "Text" -> CastFromText(cell, new_type)
      [] cell.kind = "File" -> CastFromFile(cell, new_type)
      [] cell.kind = "Glob" -> CastFromGlob(cell, new_type)
      [] cell.kind = "Regex" -> CastFromRegex(cell, new_type)
      [] cell.kind = "Integer" -> CastFromInteger(cell, new_type)
      [] OTHER -> CastDefault(cell, new_type)

\* cell.rs:166-169, the identity fast path, then the match.
Cast(cell, new_type) ==
    IF CellTypeOf(cell) = new_type THEN Ok(cell) ELSE CastMatch(cell, new_type)

-----------------------------------------------------------------------------
\* Cell::partial_clone (cell.rs:123-144)

\* cell.rs:137
CloneOutputShares(cell) == Ok(cell)
CloneOutput(cell) == Err("Invalid use of stream")

\* cell.rs:125-133, 136, 139-141: a variant without cells inside is cloned.
CloneLeaf(cell) == Ok(cell)

RECURSIVE PartialClone(_)
RECURSIVE CloneCells(_)
RECURSIVE CloneRows(_)

\* Row::partial_clone, List::partial_clone (crate::data): every cell is
\* cloned in order; the first error is the result.
CloneCells(cells) ==
    IF cells = <<>> THEN Ok(<<>>)
    ELSE LET c == PartialClone(Head(cells))
         IN  IF ~c.ok THEN c
             ELSE LET rest == CloneCells(Tail(cells))
                  IN  IF ~rest.ok THEN rest ELSE Ok(<<c.val>> \o rest.val)

\* Rows::partial_clone, Dict::partial_clone (crate::data): every row, and
\* every entry, is cloned cell by cell.
CloneRows(rows) ==
    IF rows = <<>> THEN Ok(<<>>)
    ELSE LET r == CloneCells(Head(rows))
         IN  IF ~r.ok THEN r
             ELSE LET rest == CloneRows(Tail(rows))
                  IN  IF ~rest.ok THEN rest ELSE Ok(<<r.val>> \o rest.val)

\* cell.rs:134, 135, 138, 142: `?` hands the container's error on.
CloneContainer(cell) ==
    CASE cell.kind = "Rows" ->
             LET r == CloneRows(cell.rows)
             IN  IF r.ok THEN Ok([cell EXCEPT !.rows = r.val]) ELSE r
      [] cell.kind = "Dict" ->
             LET r == CloneRows(cell.val)
             IN  IF r.ok THEN Ok([cell EXCEPT !.val = r.val]) ELSE r
      [] cell.kind \in {"Row", "List"} ->
             LET r == CloneCells(cell.val)
             IN  IF r.ok THEN Ok([cell EXCEPT !.val = r.val]) ELSE r

PartialClone(cell) ==
    CASE cell.kind = "Output" -> CloneOutput(cell)
      [] cell.kind \in {"Rows", "Row", "List", "Dict"} -> CloneContainer(cell)
      [] OTHER -> CloneLeaf(cell)

-----------------------------------------------------------------------------
\* Cell::cast and Cell::partial_clone: the inputs explored

CastChars == {"1", "d", "(", "*", "-"}

\* Texts, and paths, which may hold bytes that are not unicode.
Strings == SeqsUpTo(CastChars, MaxText)
Paths == SeqsUpTo(CastChars \cup {NonUnicode}, MaxText)

Col_a_integer == <<ColumnType(<<"a">>, "Integer")>>
Col_o_output == <<ColumnType(<<"o">>, "Output")>>

\* The types Output, Rows, Row, List and Dict are parameterised with.
SubTypes == {<<>>, Col_a_integer}

LeafCells ==
    {Text(s) : s \in Strings} \cup {Op(s) : s \in Strings}
      \cup {Glob(s) : s \in Strings}
      \cup {Regex(s) : s \in {x \in Strings : RegexSyntaxOk(x)}}
      \cup {File(p) : p \in Paths}
      \cup {Field(<<s>>) : s \in Strings} \cup {Field(<<>>)}
      \cup {Integer(i) : i \in (0 - MaxInt)..MaxInt}
      \cup {Time(0), Duration(0), Command("c"), Closure("c"), Env("e"),
            Bool(TRUE), Bool(FALSE)}

OutputCells == {Output(Stream(1, t)) : t \in SubTypes}

\* Containers of leaf cells, empty containers, and containers that hold an
\* Output cell directly or inside a nested row.
ContainerCells ==
    { Row(<<>>, <<>>),
      Row(Col_a_integer, <<Integer(1)>>),
      Row(Col_o_output, <<Output(Stream(1, Col_a_integer))>>),
      Rows(<<>>, <<>>),
      Rows(Col_a_integer, << <<Integer(1)>>, <<Integer(2)>> >>),
      Rows(Col_o_output, << <<Output(Stream(1, <<>>))>> >>),
      List(<<>>, <<>>),
      List(Col_a_integer, <<Integer(1), Integer(2)>>),
      List(Col_o_output, <<Output(Stream(1, <<>>))>>),
      Dict(<<>>, <<>>),
      Dict(Col_a_integer, << <<Text(<<"d">>), Integer(1)>> >>),
      Dict(Col_o_output, << <<Text(<<"d">>), Output(Stream(1, <<>>))>> >>),
      Row(Col_o_output, <<File(<<"d">>), Output(Stream(1, Col_a_integer))>>),
      List(Col_o_output,
           <<Row(Col_a_integer, <<Integer(1)>>),
             Row(Col_o_output, <<Output(Stream(1, <<>>))>>)>>) }

CellSamples == LeafCells \cup OutputCells \cup ContainerCells

SimpleKinds ==
    {"Text", "Integer", "Time", "Duration", "Field", "Glob", "Regex", "Op",
     "Command", "Closure", "File", "Env", "Bool"}

ParamKinds == {"Output", "Rows", "Row", "List", "Dict"}

TargetTypes ==
    {CellType(k, <<>>) : k \in SimpleKinds}
      \cup {CellType(k, t) : k \in ParamKinds, t \in SubTypes}

CellInit ==
    /\ kCell \in CellSamples
    /\ \/ kOp = "cast" /\ kType \in TargetTypes
       \/ kOp = "partial_clone" /\ kType = CellTypeOf(kCell)
    /\ kPc = "start"
    /\ kResult = None

-----------------------------------------------------------------------------
\* Cell::cast and Cell::partial_clone: one call

CastStep ==
    /\ kPc = "start"
    /\ kOp = "cast"
    /\ kResult' = Some(Cast(kCell, kType))
    /\ kPc' = "done"
    /\ UNCHANGED <<kOp, kCell, kType, hvars, cvars>>

\* partial_clone borrows the cell: `&self`.
PartialCloneStep ==
    /\ kPc = "start"
    /\ kOp = "partial_clone"
    /\ kResult' = Some(PartialClone(kCell))
    /\ kPc' = "done"
    /\ UNCHANGED <<kOp, kCell, kType, hvars, cvars>>

CellNext == CastStep \/ PartialCloneStep

-----------------------------------------------------------------------------
\* Specifications

CellIdle ==
    /\ kOp = "none"
    /\ kCell = Bool(FALSE)
    /\ kType = CellType("Bool", <<>>)
    /\ kPc = "start"
    /\ kResult = None

HeadIdle ==
    /\ hAll = <<>>
    /\ hLines = 0
    /\ hPending = <<>>
    /\ hInput = <<>>
    /\ hInClosed = FALSE
    /\ hInAlive = TRUE
    /\ hOutput = <<>>
    /\ hOutOpen = TRUE
    /\ hCount = 0
    /\ hRecvd = 0
    /\ hPc = "run"
    /\ hResult = "none"

Init == CsvInit /\ HeadIdle /\ CellIdle

Spec == Init /\ [][CsvNext]_vars

InitFiles == FilesInit /\ HeadIdle /\ CellIdle

SpecFiles == InitFiles /\ [][CsvNext]_vars

InitLive == LiveInit /\ HeadIdle /\ CellIdle

CsvIdle ==
    /\ args = <<>>
    /\ content = <<>>
    /\ cPc = "start"
    /\ cResult = "none"
    /\ cfg = DefaultConfig
    /\ outInit = FALSE
    /\ outOpen = TRUE
    /\ outQueue = <<>>
    /\ outSent = <<>>
    /\ next = 1
    /\ w = <<>>

-----------------------------------------------------------------------------
\* Claims about csv and materialize (checked under Spec, SpecFiles and
\* FairSpec).

Workers == 1..Len(w)

\* The lines of a file, each without its terminator; a last line need not end
\* with a newline.
DataLines(c) ==
    LET parts == Split(c, NL)
    IN  IF parts[Len(parts)] = <<>> THEN SubSeq(parts, 1, Len(parts) - 1)
        ELSE parts

\* The separator-split (and trimmed) fields of a line of the file.
FieldsOf(l) == SplitFields(l, cfg.separator, cfg.trim)

CastFails(l) == ~ParseCells(FieldsOf(l), cfg.columns).ok

WellFormed(l) == Len(FieldsOf(l)) = Len(cfg.columns) /\ ~CastFails(l)

RowOf(l) == ParseCells(FieldsOf(l), cfg.columns).val

\* The line of log entry e without its terminator.
EntryLine(e) ==
    IF e.raw[Len(e.raw)] = NL THEN SubSeq(e.raw, 1, Len(e.raw) - 1) ELSE e.raw

WrongCountMessage == "csv: Wrong number of columns in CSV file"

\* The rows worker i has put into its nested stream, in order.
RECURSIVE SentRowsOf(_)
SentRowsOf(log) ==
    IF log = <<>> THEN <<>>
    ELSE IF Head(log).sendOk THEN <<Head(log).row[1]>> \o SentRowsOf(Tail(log))
    ELSE SentRowsOf(Tail(log))

\* C3: a line whose number of fields differs from the number of declared
\* columns gets a diagnostic and no row, and every row put into a nested
\* stream has exactly as many cells as there are declared columns.
C3_MismatchedLineSkipped ==
    \A i \in Workers :
        \A k \in 1..Len(w[i].log) :
            LET e == w[i].log[k]
            IN  /\ Len(FieldsOf(EntryLine(e))) /= Len(cfg.columns) =>
                       /\ \E m \in 1..Len(e.errs) : e.errs[m] = WrongCountMessage
                       /\ e.row = None
                /\ e.row /= None => Len(e.row[1]) = Len(cfg.columns)

\* C4: after a send of a csv worker has failed because the consumer end was
\* dropped, the worker reads no further line of its file.
C4_WorkerStopsOnFailedSend ==
    \A i \in Workers :
        \A k \in 1..Len(w[i].log) :
            (w[i].log[k].row /= None /\ ~w[i].log[k].sendOk) => k = Len(w[i].log)

\* C5: the outer rows sent are, in file-list order, one (File, Output) row per
\* file handled, each wrapping its own nested stream carrying the declared
\* columns; a worker exists (and so a line is read) only for a file whose outer
\* row has been sent; and when run returns Ok every file has its outer row.
C5_OuterRowBeforeWorker ==
    /\ Len(outSent) <= Len(cfg.files)
    /\ \A k \in 1..Len(outSent) :
           /\ outSent[k] = <<File(cfg.files[k]), Output(k)>>
           /\ k \in Workers /\ w[k].file = cfg.files[k]
           /\ w[k].types = cfg.columns
    /\ \A i \in Workers :
           (w[i].pc /= "none" \/ w[i].log /= <<>>) => i <= Len(outSent)
    /\ (cPc = "done" /\ cResult = "ok") => Len(outSent) = Len(cfg.files)

\* C5 witness: run has returned Ok for two different files, both outer rows
\* are out, and a worker has read a line.
C5_Witness ==
    /\ cPc = "done" /\ cResult = "ok"
    /\ Len(outSent) = 2 /\ outSent[1] /= outSent[2]
    /\ cfg.files[1] /= cfg.files[2]
    /\ \E i \in Workers : w[i].log /= <<>>

\* A positional argument file_expand rejects.
BadPositional(a) == a.name = None /\ a.cell.kind \notin {"Text", "File", "Glob"}

\* C6: when the first argument parse cannot accept is a positional cell that
\* is no Text, File or Glob, compile_and_run returns "Expected a file name",
\* the output stream is never initialized, no outer row is sent and no worker
\* is started.
C6_BadPositionalRejected ==
    (/\ cPc /= "start"
     /\ \E k \in 1..Len(args) :
            /\ BadPositional(args[k])
            /\ Parse(SubSeq(args, 1, k - 1)).ok)
    => /\ cPc = "done"
       /\ cResult = "Expected a file name"
       /\ ~outInit
       /\ outSent = <<>>
       /\ w = <<>>

\* The scheduler runs every spawned worker thread, and a consumer inside
\* materialize keeps receiving.
WorkerRuns(i) == i \in Workers /\ (WorkerOpen(i) \/ WorkerLine(i))

MaterializeRuns(i) == i \in Workers /\ w[i].cons = "mat" /\ MaterializeStep(i)

FairSpec ==
    /\ InitLive
    /\ [][CsvNext]_vars
    /\ \A i \in 1..MaxFiles : WF_vars(WorkerRuns(i)) /\ WF_vars(MaterializeRuns(i))

\* The worker of nested stream i has ended and its producer side is dropped.
WorkerEnded(i) ==
    i \in Workers /\ w[i].pc \in {"none", "done", "panic"} /\ ~w[i].prodOpen

\* C7: every nested stream's producer side is eventually dropped, its worker
\* having terminated, whatever the file holds, whether or not the consumer was
\* dropped and whether or not the file can be opened; and a consumer draining
\* the stream eventually gets end-of-stream.
C7_WorkersTerminate ==
    \A i \in 1..MaxFiles :
        /\ (i \in Workers) ~> WorkerEnded(i)
        /\ (i \in Workers /\ w[i].cons = "mat")
               ~> (i \in Workers /\ w[i].cons = "done")

\* C7 witness: a worker that read a whole two-line file after its consumer was
\* dropped has ended, and so has a worker whose file could not be opened.
C7_Witness ==
    /\ \E i \in Workers :
           /\ WorkerEnded(i) /\ w[i].pc = "done"
           /\ Len(w[i].log) = 2 /\ w[i].cons = "dropped"
    /\ \E i \in Workers : WorkerEnded(i) /\ w[i].pc = "panic"

\* C8: a line on which a cast fails gets its error reported and no row, every
\* line of the file is read, and every well-formed line after a cast failure
\* yields its row.
C8_CastFailureIsNotFatal ==
    \A i \in Workers :
        w[i].pc = "done" =>
            LET L == DataLines(content)
            IN  /\ Len(w[i].log) = Len(L)
                /\ \A k \in 1..Len(L) :
                       /\ CastFails(L[k]) =>
                              /\ w[i].log[k].row = None
                              /\ w[i].log[k].errs /= <<>>
                       /\ ((\E j \in 1..(k - 1) : CastFails(L[j]))
                              /\ WellFormed(L[k])) =>
                              w[i].log[k].row = Some(RowOf(L[k]))

\* C9: every line of the file that has the declared number of fields, all of
\* which cast, yields exactly one row: the fields cast to the declared column
\* types, in the order of the lines.
C9_WellFormedLinesYieldRows ==
    \A i \in Workers :
        w[i].pc = "done" =>
            LET L == DataLines(content)
            IN  \A k \in 1..Len(L) :
                    WellFormed(L[k]) =>
                        /\ k <= Len(w[i].log)
                        /\ w[i].log[k].row = Some(RowOf(L[k]))

-----------------------------------------------------------------------------
\* Claims about head (checked under SpecHead).

IsPrefix(s, t) == Len(s) <= Len(t) /\ s = SubSeq(t, 1, Len(s))

\* C1: for count >= 0, what run has sent to output is always a prefix of the
\* input rows, and once run has returned Ok it is exactly the first
\* min(count, n) rows of the n-row input, unchanged and in input order
\* (so none at all for count = 0).
C1_HeadForwardsFirstRows ==
    hLines >= 0 =>
        /\ IsPrefix(hOutput, hAll)
        /\ Len(hOutput) <= hLines
        /\ (hPc = "done" /\ hResult = "ok") =>
               hOutput = SubSeq(hAll, 1, Min(hLines, Len(hAll)))

\* C1 witness: run(2, ...) has returned Ok on a 4-row input after forwarding
\* exactly its first two rows.
C1_Witness ==
    /\ hPc = "done" /\ hResult = "ok"
    /\ hLines = 2 /\ Len(hAll) = 4
    /\ hOutput = SubSeq(hAll, 1, 2)
    /\ hAll[1] /= hAll[2]

\* C2: for count >= 0 and an input holding more than count rows, run has
\* removed exactly count rows from the input stream when it returns.
C2_HeadReadsExactlyCount ==
    (hPc = "done" /\ hResult = "ok" /\ hLines >= 0 /\ Len(hAll) > hLines)
        => hRecvd = hLines

InitHead == HeadInit /\ CsvIdle /\ CellIdle

SpecHead == InitHead /\ [][HeadNext]_vars

-----------------------------------------------------------------------------
\* Claims about Cell::cast and Cell::partial_clone (checked under SpecCell).

InitCell == CellInit /\ HeadIdle /\ CsvIdle

SpecCell == InitCell /\ [][CellNext]_vars

\* The pairs (source variant, target type) of the conversion matrix.
ListedCasts ==
    ({"Text"} \X {"File", "Glob", "Integer", "Field", "Op", "Regex"})
      \cup ({"File"} \X {"Text", "Glob", "Integer", "Op", "Regex"})
      \cup ({"Glob"} \X {"Text", "File", "Integer", "Op", "Regex"})
      \cup ({"Integer"} \X {"Text", "File", "Glob", "Field", "Op", "Regex"})
      \cup ({"Regex"} \X {"Text", "File", "Glob", "Integer", "Op"})

CastDone == kPc = "done" /\ kOp = "cast"

IsUnimplemented(r) == ~r.ok /\ r.err = "Unimplemented conversion"

\* C11: a cast to a type other than the cell's own fails with "Unimplemented
\* conversion" exactly when the pair (source variant, target type) is not in
\* the conversion matrix.
C11_UnimplementedOffTheMatrix ==
    (CastDone /\ CellTypeOf(kCell) /= kType) =>
        (IsUnimplemented(kResult[1])
            <=> <<kCell.kind, kType.kind>> \notin ListedCasts)

C11_Witness ==
    /\ CastDone
    /\ kCell.kind = "Field" /\ kCell.val /= <<>>
    /\ kType.kind = "Integer"
    /\ IsUnimplemented(kResult[1])

RECURSIVE HoldsOutput(_)
RECURSIVE AnyHoldsOutput(_)

\* The cell is an Output cell or has one inside, at any depth.
AnyHoldsOutput(cells) ==
    cells /= <<>> /\ (HoldsOutput(Head(cells)) \/ AnyHoldsOutput(Tail(cells)))

HoldsOutput(cell) ==
    CASE cell.kind = "Output" -> TRUE
      [] cell.kind \in {"Row", "List"} -> AnyHoldsOutput(cell.val)
      [] cell.kind = "Rows" ->
             \E k \in 1..Len(cell.rows) : AnyHoldsOutput(cell.rows[k])
      [] cell.kind = "Dict" ->
             \E k \in 1..Len(cell.val) : AnyHoldsOutput(cell.val[k])
      [] OTHER -> FALSE

CloneCall == kOp = "partial_clone" /\ kPc = "start" /\ kPc' = "done"

IsInvalidUseOfStream(r) == ~r.ok /\ r.err = "Invalid use of stream"

\* C12 as stated: partial_clone succeeds for a cell of every variant except
\* Output, fails with "Invalid use of stream" for an Output cell, no clone
\* holds a stream handle, and the original cell is unchanged.
C12_CloneFailsOnlyForOutput ==
    [][CloneCall =>
          LET r == kResult'[1]
          IN  /\ kCell.kind /= "Output" => r.ok
              /\ kCell.kind = "Output" => IsInvalidUseOfStream(r)
              /\ r.ok => ~HoldsOutput(r.val)
              /\ kCell' = kCell]_vars

\* C12 amended: partial_clone succeeds exactly for the cells that neither are
\* nor hold an Output cell, every failure is "Invalid use of stream", no clone
\* holds a stream handle, and the original cell is unchanged.
C12_CloneFailsExactlyOnStreams ==
    [][CloneCall =>
          LET r == kResult'[1]
          IN  /\ r.ok <=> ~HoldsOutput(kCell)
              /\ ~r.ok => IsInvalidUseOfStream(r)
              /\ r.ok => ~HoldsOutput(r.val)
              /\ kCell' = kCell]_vars

C12_Witness ==
    /\ kOp = "partial_clone" /\ kPc = "done"
    /\ kCell.kind = "Row" /\ HoldsOutput(kCell)
    /\ IsInvalidUseOfStream(kResult[1])

-----------------------------------------------------------------------------
\* A claim about the lines the csv worker splits (checked under Spec).

\* The fields put together again, with the separator between them.
RECURSIVE JoinFields(_, _)
JoinFields(fields, separator) ==
    IF Len(fields) = 1 THEN fields[1]
    ELSE fields[1] \o <<separator>> \o JoinFields(Tail(fields), separator)

\* C13: the fields the worker splits from a line hold every character of the
\* line but its terminator, also for a last line that has no newline.
C13_OnlyTerminatorRemoved ==
    \A i \in Workers :
        \A k \in 1..Len(w[i].log) :
            JoinFields(w[i].log[k].fields, cfg.separator)
                = EntryLine(w[i].log[k])

====
